---- MODULE Spec2Model ----
(***************************************************************************)
(* Credit ledger of colpageapp: the users table and the credit_transactions *)
(* log held by the remote store, the ledger operations of lib/credit-utils  *)
(* (getOrCreateUser, hasEnoughCredits, useCredits, addCredits,              *)
(* canAccessMultiplePhotos, getCreditBalance), the multi-person generation  *)
(* handler POST /api/images/replicate, which authorizes, calls the external *)
(* generation service and debits, and the single-photo flow of the page     *)
(* (handleApiCall), which debits from the browser.                          *)
(*                                                                         *)
(* Every await on the store is one atomic step of the calling request.      *)
(* Every store call may be answered with an error (the store is unreachable *)
(* or rejects the statement); a rejected statement changes nothing.         *)
(* Timestamps (created_at, updated_at) are not modelled;                    *)
(* subscription_expires_at is kept as the period that was added to the      *)
(* current time.  Spec runs one request at a time.                          *)
(***************************************************************************)
EXTENDS Integers, Sequences, FiniteSets, TLC

\* ------------------------------------------------------------------ bounds
\* Largest balance the model lets a grant reach.
MaxCredits == 4
\* Largest number of rows of credit_transactions.
MaxLog == 2

\* ------------------------------------------------------- program constants
INITIAL_CREDITS == 0
TRIAL_CREDITS == 3
\* POST /api/images/replicate: credits of one multi-person generation.
REQUIRED_CREDITS == 2
MONTHLY_CREDITS == 5
YEARLY_CREDITS == 60

\* ------------------------------------------------------------------ inputs
Procs == {"r1", "r2"}
Emails == {"a@x.com"}
NULL == "null"
\* The identity provider's user id of an email (signUpUser, the session).
AuthId(email) == IF email = "a@x.com" THEN "uid-a" ELSE "uid-other"
\* Amounts the callers pass to addCredits and useCredits.
AddAmounts == {1, TRIAL_CREDITS}
UseAmounts == {1, REQUIRED_CREDITS}
SubscriptionTypes == {"monthly", "yearly"}

\* A row of public.users; NoUser stands for the null of getUserByEmail.
NoUser ==
    [id |-> NULL, email |-> NULL, credits |-> 0, subscription_type |-> NULL,
     subscription_tier |-> NULL, subscription_expires_at |-> NULL]

NoCall ==
    [op |-> "none", email |-> NULL, amount |-> 0, subscriptionType |-> NULL,
     authUserId |-> NULL]

NoRet == [kind |-> "none", code |-> NULL, user |-> NoUser, num |-> 0, bool |-> FALSE]

VARIABLES
    users,           \* the rows of public.users
    log,             \* the rows of public.credit_transactions, in insertion order
    adminAvailable,  \* supabaseAdmin is not null (the service role key is set)
    pc,              \* per request: the store call it is about to make
    call,            \* per request: the ledger operation in progress and its arguments
    user,            \* per request: the row getUserByEmail / createUser returned
    ret,             \* per request: what the ledger operation returned or threw
    req,             \* per request: the generation request being handled, if any
    pre,             \* per request: the account's row when the operation was called
    dirty,           \* per request: another request wrote the account since the call
    appended,        \* per request: the log rows the operation has inserted
    fault,           \* per request: the store call of the operation that failed
    prev             \* per request: the operation completed before a balance query

vars ==
    <<users, log, adminAvailable, pc, call, user, ret, req, pre, dirty, appended,
      fault, prev>>

\* ------------------------------------------------------------- the store
\* .from('users').select('*').eq('email', email)
Matching(rows, email) == {r \in rows : r.email = email}

\* What getUserByEmail can return from a store that answers: null when no row
\* matches, otherwise the first row of the result.
Lookup(rows, email) ==
    IF Matching(rows, email) = {} THEN {NoUser} ELSE Matching(rows, email)

\* The row the store holds for an email (NoUser when there is none).
RowOf(rows, email) ==
    IF Matching(rows, email) = {} THEN NoUser
    ELSE CHOOSE r \in Matching(rows, email) : TRUE

\* The balance the store holds for an email (0 when there is no row).
Balance(rows, email) ==
    IF Matching(rows, email) = {} THEN 0
    ELSE (CHOOSE r \in Matching(rows, email) : TRUE).credits

\* A table without PRIMARY KEY (id) and UNIQUE (email).
InsertAcceptedWithoutConstraints(rows, row) == TRUE

\* PRIMARY KEY (id), UNIQUE (email): whether the insert is accepted.
InsertAccepted(rows, row) ==
    \A r \in rows : r.id # row.id /\ r.email # row.email

\* Faulty variant of the row createUser inserts: it starts with the trial
\* credits.
NewUserWithTrialCredits(id, email) ==
    [id |-> id, email |-> email, credits |-> TRIAL_CREDITS,
     subscription_type |-> NULL, subscription_tier |-> NULL,
     subscription_expires_at |-> NULL]

\* The row createUser inserts.
NewUser(id, email) ==
    [id |-> id, email |-> email, credits |-> INITIAL_CREDITS,
     subscription_type |-> NULL, subscription_tier |-> NULL,
     subscription_expires_at |-> NULL]

\* The row with the given id (id is the primary key).
RowById(rows, id) == CHOOSE r \in rows : r.id = id

\* UPDATE users SET ... WHERE id = <id>, the row becoming new: the table
\* afterwards.
UpdateById(rows, id, new) ==
    {IF r.id = id THEN new ELSE r : r \in rows}

\* --------------------------------------------- credit-utils: pure parts
Thrown(code) == [NoRet EXCEPT !.kind = "err", !.code = code]
ReturnedUser(u) == [NoRet EXCEPT !.kind = "ok", !.user = u]
ReturnedNum(n) == [NoRet EXCEPT !.kind = "ok", !.num = n]
ReturnedBool(b) == [NoRet EXCEPT !.kind = "ok", !.bool = b]

\* getUserByEmail: the results it can give.  ok: the store answers the select;
\* otherwise it throws GET_USERS_ERROR.
GetUserByEmail(rows, email, ok) ==
    IF ok THEN {[err |-> FALSE, user |-> u] : u \in Lookup(rows, email)}
    ELSE {[err |-> TRUE, user |-> NoUser]}

\* Faulty variants of hasEnoughCredits: one that fails closed, one that asks
\* for more than the required balance.
HasEnoughCreditsFailsClosed(res, requiredCredits) ==
    IF res.err THEN ReturnedBool(FALSE)
    ELSE IF res.user = NoUser THEN ReturnedBool(FALSE)
    ELSE ReturnedBool(res.user.credits >= requiredCredits)

HasEnoughCreditsStrict(res, requiredCredits) ==
    IF res.err THEN ReturnedBool(TRUE)
    ELSE IF res.user = NoUser THEN ReturnedBool(FALSE)
    ELSE ReturnedBool(res.user.credits > requiredCredits)

\* hasEnoughCredits, given the result of its lookup.
HasEnoughCredits(res, requiredCredits) ==
    IF res.err THEN ReturnedBool(TRUE)
    ELSE IF res.user = NoUser THEN ReturnedBool(FALSE)
    ELSE ReturnedBool(res.user.credits >= requiredCredits)

\* Faulty variant of getCreditBalance: the error of the lookup reaches the
\* caller.
GetCreditBalanceRethrows(res) ==
    IF res.err THEN Thrown("GET_USERS_ERROR")
    ELSE ReturnedNum(IF res.user # NoUser THEN res.user.credits ELSE 0)

\* getCreditBalance, given the result of its lookup.
GetCreditBalance(res) ==
    IF res.err THEN ReturnedNum(0)
    ELSE ReturnedNum(IF res.user # NoUser THEN res.user.credits ELSE 0)

\* Faulty variant of canAccessMultiplePhotos: one that fails closed.
CanAccessMultiplePhotosFailsClosed(res) ==
    IF res.err THEN ReturnedBool(FALSE)
    ELSE IF res.user = NoUser THEN ReturnedBool(FALSE)
    ELSE IF res.user.subscription_tier = "basic" THEN ReturnedBool(FALSE)
    ELSE ReturnedBool(TRUE)

\* canAccessMultiplePhotos, given the result of its lookup.
CanAccessMultiplePhotos(res) ==
    IF res.err THEN ReturnedBool(TRUE)
    ELSE IF res.user = NoUser THEN ReturnedBool(FALSE)
    ELSE IF res.user.subscription_tier = "basic" THEN ReturnedBool(FALSE)
    ELSE ReturnedBool(TRUE)

\* Faulty variants of the checks of useCredits: one without the balance check,
\* one without the check that the account exists.
UseCheckWithoutBalance(u, amount, admin) ==
    IF u = NoUser THEN "USER_NOT_FOUND"
    ELSE IF ~admin THEN "NO_ADMIN_CLIENT_DEDUCTION"
    ELSE "ok"

UseCheckWithoutAccount(u, amount, admin) ==
    IF u.credits < amount THEN "INSUFFICIENT_CREDITS"
    ELSE IF ~admin THEN "NO_ADMIN_CLIENT_DEDUCTION"
    ELSE "ok"

\* useCredits between the lookup and the update: the error it throws, or "ok".
UseCheck(u, amount, admin) ==
    IF u = NoUser THEN "USER_NOT_FOUND"
    ELSE IF u.credits < amount THEN "INSUFFICIENT_CREDITS"
    ELSE IF ~admin THEN "NO_ADMIN_CLIENT_DEDUCTION"
    ELSE "ok"

\* An update of useCredits that would decrement the stored balance in place.
DebitInPlace(r, u, amount) == [r EXCEPT !.credits = r.credits - amount]

\* The update of useCredits, from the row read earlier.
Debit(r, u, amount) == [r EXCEPT !.credits = u.credits - amount]

\* Faulty variant of the check after the update of useCredits: the answer of
\* the store is not looked at.
UseUpdateUnchecked(applied) == "ok"

\* useCredits after the update: the error it throws (applied: the store
\* answered with the updated row), or "ok".
UseUpdateCheck(applied) == IF ~applied THEN "USE_CREDITS_ERROR" ELSE "ok"

\* subscription_expires_at as addCredits computes it: now + 1 month / 1 year.
Expiry(subscriptionType) ==
    IF subscriptionType = "monthly" THEN "now+1month" ELSE "now+1year"

\* Faulty variant of updateData: the balance is set to the amount.
GrantOverwrites(r, u, amount, subscriptionType) ==
    IF subscriptionType # NULL
    THEN [r EXCEPT !.credits = amount,
                   !.subscription_type = subscriptionType,
                   !.subscription_expires_at = Expiry(subscriptionType)]
    ELSE [r EXCEPT !.credits = amount]

\* Faulty variant of updateData: the period and the expiry are always written,
\* as null when no period is supplied.
GrantClearsPeriod(r, u, amount, subscriptionType) ==
    [r EXCEPT !.credits = u.credits + amount,
              !.subscription_type = subscriptionType,
              !.subscription_expires_at =
                  IF subscriptionType # NULL THEN Expiry(subscriptionType)
                  ELSE NULL]

\* An updateData that would increment the stored balance in place.
GrantInPlace(r, u, amount, subscriptionType) ==
    IF subscriptionType # NULL
    THEN [r EXCEPT !.credits = r.credits + amount,
                   !.subscription_type = subscriptionType,
                   !.subscription_expires_at = Expiry(subscriptionType)]
    ELSE [r EXCEPT !.credits = r.credits + amount]

\* updateData of addCredits, from the row read (or created) earlier.
Grant(r, u, amount, subscriptionType) ==
    IF subscriptionType # NULL
    THEN [r EXCEPT !.credits = u.credits + amount,
                   !.subscription_type = subscriptionType,
                   !.subscription_expires_at = Expiry(subscriptionType)]
    ELSE [r EXCEPT !.credits = u.credits + amount]

\* Faulty variant of the check after the update of addCredits: the answer of
\* the store is not looked at.
AddUpdateUnchecked(ok, found) == "ok"

\* addCredits after the update: the error it throws (ok: the store answered,
\* found: it returned an updated row), or "ok".
AddUpdateCheck(ok, found) ==
    IF ~ok THEN "ADD_CREDITS_ERROR"
    ELSE IF ~found THEN "NO_ROWS_UPDATED"
    ELSE "ok"

\* Faulty variant of the usage row: the amount is not negated.
UsageTxUnsigned(u, amount) ==
    [user_id |-> u.id, amount |-> amount, transaction_type |-> "usage",
     description |-> "Image generation"]

\* The rows logCreditTransaction is asked to insert.
UsageTx(u, amount) ==
    [user_id |-> u.id, amount |-> -amount, transaction_type |-> "usage",
     description |-> "Image generation"]

\* Faulty variant of the purchase row: the amount is negated as for a usage.
PurchaseTxNegated(u, amount, subscriptionType) ==
    [user_id |-> u.id, amount |-> 0 - amount, transaction_type |-> "purchase",
     description |-> IF subscriptionType # NULL THEN subscriptionType
                     ELSE "manual"]

\* The description of a purchase row is "<subscriptionType or manual> credit
\* purchase"; only its variable part is kept.
PurchaseTx(u, amount, subscriptionType) ==
    [user_id |-> u.id, amount |-> amount, transaction_type |-> "purchase",
     description |-> IF subscriptionType # NULL THEN subscriptionType
                     ELSE "manual"]

\* Faulty variant of logCreditTransaction: a failed insert is thrown.
LogCreditTransactionRethrows(txs, tx, admin, ok) ==
    [log |-> IF admin /\ ok THEN Append(txs, tx) ELSE txs,
     thrown |-> admin /\ ~ok]

\* logCreditTransaction: the log after the call and whether it throws; without
\* the admin client it returns at once, and a failed insert is only reported
\* on the console.
LogCreditTransaction(txs, tx, admin, ok) ==
    [log |-> IF admin /\ ok THEN Append(txs, tx) ELSE txs, thrown |-> FALSE]

\* ------------------------------------------------------------ requests
\* The body of a webhook delivery or of a call of the credits API.
NoPayload ==
    [event |-> NULL, buyer_email |-> NULL, product_id |-> NULL,
     subscription_type |-> NULL, amount |-> NULL, trial_transaction |-> 0,
     password |-> NULL, action |-> NULL]

\* A request to a handler: the flow that handles it (POST of the replicate
\* route, handleApiCall of the page, POST of the groovesell-webhook route, POST
\* of the credits route), its body, how the generation ended or what the
\* handler did with the event, and the response (status 0: not answered yet).
NoReq == [active |-> FALSE, flow |-> NULL, outcome |-> NULL, status |-> 0,
          image |-> FALSE, warning |-> FALSE, payload |-> NoPayload,
          success |-> FALSE, error |-> FALSE]

Idle(p) == pc[p] \in {"idle", "done"}

NoPrev == [op |-> "none", amount |-> 0, kind |-> "none", existed |-> FALSE,
           balance |-> 0, clean |-> TRUE]

\* Summary of the operation a request has just completed, kept for the
\* balance query that follows it and for a repeated getOrCreateUser.
Summary(p, c) ==
    IF /\ \/ c.op = "getCreditBalance"
          \/ c.op = "getOrCreateUser" /\ call[p].op = "getOrCreateUser"
       /\ pc[p] = "done"
       /\ c.email = call[p].email
    THEN [op |-> call[p].op, amount |-> call[p].amount, kind |-> ret[p].kind,
          existed |-> pre[p] # NoUser, balance |-> pre[p].credits,
          clean |-> ~dirty[p]]
    ELSE NoPrev

\* A request that may still write the balance or the log.
Writing(q) ==
    /\ ~Idle(q)
    /\ req[q].active \/ call[q].op \in {"useCredits", "addCredits"}

LogRoom == Len(log) + Cardinality({q \in Procs : Writing(q)}) < MaxLog

RECURSIVE PendingGrants(_, _)
PendingGrants(S, email) ==
    IF S = {} THEN 0
    ELSE LET q == CHOOSE x \in S : TRUE
         IN  (IF ~Idle(q) /\ call[q].op = "addCredits" /\ call[q].email = email
              THEN call[q].amount ELSE 0) + PendingGrants(S \ {q}, email)

\* A request enters the operation c at its first store call.
Begin(p, c, first, r) ==
    /\ Idle(p)
    /\ call' = [call EXCEPT ![p] = c]
    /\ pc' = [pc EXCEPT ![p] = first]
    /\ user' = [user EXCEPT ![p] = NoUser]
    /\ ret' = [ret EXCEPT ![p] = NoRet]
    /\ req' = [req EXCEPT ![p] = r]
    /\ pre' = [pre EXCEPT ![p] = RowOf(users, c.email)]
    /\ dirty' = [dirty EXCEPT ![p] = FALSE]
    /\ appended' = [appended EXCEPT ![p] = <<>>]
    /\ fault' = [fault EXCEPT ![p] = NULL]
    /\ prev' = [prev EXCEPT ![p] = Summary(p, c)]
    /\ UNCHANGED <<users, log, adminAvailable>>

\* The ledger operation of request p ends with r: back to its caller.
Finish(p, r) ==
    /\ ret' = [ret EXCEPT ![p] = r]
    /\ pc' = [pc EXCEPT ![p] =
                 IF ~req[p].active THEN "done"
                 ELSE IF req[p].flow = "POST" THEN "post_debited"
                 ELSE IF req[p].flow = "handleApiCall" THEN "page_debited"
                 ELSE IF req[p].flow = "groovesell-webhook" THEN "gs_granted"
                 ELSE "cr_granted"]

\* The operation of request p goes on to its next store call.
Goto(p, next) ==
    /\ pc' = [pc EXCEPT ![p] = next]
    /\ UNCHANGED ret

\* The store call request p has just made was answered (ok) or failed.
Answered(p, ok, which) ==
    fault' = [fault EXCEPT ![p] = IF ok THEN fault[p] ELSE which]

\* Request p wrote the row or the log of the account of email (wrote), or not.
Touch(p, email, wrote) ==
    dirty' = [q \in Procs |->
                IF wrote /\ q # p /\ call[q].email = email THEN TRUE
                ELSE dirty[q]]

\* getUserByEmail as the store call of an advisory check of the handler,
\* whose answer the handler may turn into a response.
CheckRead(p, ok, res) ==
    /\ res \in GetUserByEmail(users, call[p].email, ok)
    /\ user' = [user EXCEPT ![p] = res.user]
    /\ Answered(p, ok, "lookup")
    /\ UNCHANGED <<users, log, adminAvailable, call, pre, dirty, appended, prev>>

\* getUserByEmail as the first store call of an operation of request p.
Read(p, ok, res) ==
    /\ CheckRead(p, ok, res)
    /\ UNCHANGED req

\* ------------------------------------------------------ getOrCreateUser
CallGetOrCreateUser(p, email) ==
    Begin(p, [NoCall EXCEPT !.op = "getOrCreateUser", !.email = email,
                            !.authUserId = AuthId(email)], "goc_get", NoReq)

\* Faulty variant of the lookup of getOrCreateUser: a lookup that failed is
\* taken for an email without an account.
GocGetSwallowsError(p, ok) ==
    /\ pc[p] = "goc_get"
    /\ \E res \in GetUserByEmail(users, call[p].email, ok) :
         /\ Read(p, ok, res)
         /\ IF res.user = NoUser THEN Goto(p, "goc_create")
            ELSE Finish(p, ReturnedUser(res.user))

GocGet(p, ok) ==
    /\ pc[p] = "goc_get"
    /\ \E res \in GetUserByEmail(users, call[p].email, ok) :
         /\ Read(p, ok, res)
         /\ IF res.err THEN Finish(p, Thrown("GET_USERS_ERROR"))
            ELSE IF res.user = NoUser THEN Goto(p, "goc_create")
            ELSE Finish(p, ReturnedUser(res.user))

\* createUser: the insert, refused by the store or by its constraints.
CreateUser(p, ok, next) ==
    LET row == NewUser(call[p].authUserId, call[p].email)
        inserted == ok /\ InsertAccepted(users, row)
    IN  /\ users' = IF inserted THEN users \cup {row} ELSE users
        /\ user' = [user EXCEPT ![p] = IF inserted THEN row ELSE user[p]]
        /\ Touch(p, call[p].email, inserted)
        /\ Answered(p, inserted, "insert")
        /\ IF ~inserted THEN Finish(p, Thrown("CREATE_USER_ERROR"))
           ELSE IF next = "done" THEN Finish(p, ReturnedUser(row))
           ELSE Goto(p, next)
        /\ UNCHANGED <<log, adminAvailable, call, req, pre, appended, prev>>

GocCreate(p, ok) ==
    /\ pc[p] = "goc_create"
    /\ CreateUser(p, ok, "done")

\* ------------------------------- getCreditBalance, hasEnoughCredits, tier
CallGetCreditBalance(p, email) ==
    Begin(p, [NoCall EXCEPT !.op = "getCreditBalance", !.email = email],
          "bal_get", NoReq)

BalGet(p, ok) ==
    /\ pc[p] = "bal_get"
    /\ \E res \in GetUserByEmail(users, call[p].email, ok) :
         /\ Read(p, ok, res)
         /\ Finish(p, GetCreditBalance(res))

CallHasEnoughCredits(p, email, requiredCredits) ==
    Begin(p, [NoCall EXCEPT !.op = "hasEnoughCredits", !.email = email,
                            !.amount = requiredCredits], "has_get", NoReq)

HasGet(p, ok) ==
    /\ pc[p] = "has_get"
    /\ \E res \in GetUserByEmail(users, call[p].email, ok) :
         /\ Read(p, ok, res)
         /\ Finish(p, HasEnoughCredits(res, call[p].amount))

CallCanAccessMultiplePhotos(p, email) ==
    Begin(p, [NoCall EXCEPT !.op = "canAccessMultiplePhotos", !.email = email],
          "can_get", NoReq)

CanGet(p, ok) ==
    /\ pc[p] = "can_get"
    /\ \E res \in GetUserByEmail(users, call[p].email, ok) :
         /\ Read(p, ok, res)
         /\ Finish(p, CanAccessMultiplePhotos(res))

\* ------------------------------------------------------------ useCredits
CallUseCredits(p, email, amount) ==
    /\ LogRoom
    /\ Begin(p, [NoCall EXCEPT !.op = "useCredits", !.email = email,
                               !.amount = amount], "use_get", NoReq)

UseGet(p, ok) ==
    /\ pc[p] = "use_get"
    /\ \E res \in GetUserByEmail(users, call[p].email, ok) :
         /\ Read(p, ok, res)
         /\ IF res.err THEN Finish(p, Thrown("GET_USERS_ERROR"))
            ELSE IF UseCheck(res.user, call[p].amount, adminAvailable) # "ok"
                 THEN Finish(p, Thrown(UseCheck(res.user, call[p].amount,
                                                adminAvailable)))
                 ELSE Goto(p, "use_update")

\* .update({credits: user.credits - amount}).eq('id', user.id).select().single()
UseUpdate(p, ok) ==
    LET applied == ok /\ \E r \in users : r.id = user[p].id
    IN  /\ pc[p] = "use_update"
        /\ users' = IF applied
                    THEN UpdateById(users, user[p].id,
                             Debit(RowById(users, user[p].id), user[p],
                                   call[p].amount))
                    ELSE users
        /\ Touch(p, call[p].email, applied)
        /\ Answered(p, ok, "update")
        /\ IF UseUpdateCheck(applied) # "ok"
           THEN Finish(p, Thrown(UseUpdateCheck(applied)))
           ELSE /\ pc' = [pc EXCEPT ![p] = "use_log"]
                /\ ret' = [ret EXCEPT ![p] =
                             [NoRet EXCEPT !.user = RowOf(users', call[p].email)]]
        /\ UNCHANGED <<log, adminAvailable, call, user, req, pre, appended, prev>>

\* logCreditTransaction(user.id, ...) and the return of the updated row.
LogAndReturn(p, ok, tx) ==
    LET r == LogCreditTransaction(log, tx, adminAvailable, ok)
    IN  /\ log' = r.log
        /\ appended' = [appended EXCEPT ![p] =
                          appended[p] \o SubSeq(r.log, Len(log) + 1, Len(r.log))]
        /\ Touch(p, call[p].email, r.log # log)
        /\ Answered(p, adminAvailable /\ ok, "log")
        /\ IF r.thrown THEN Finish(p, Thrown("UNKNOWN_ERROR"))
           ELSE Finish(p, ReturnedUser(ret[p].user))
        /\ UNCHANGED <<users, adminAvailable, call, user, req, pre, prev>>

UseLog(p, ok) ==
    /\ pc[p] = "use_log"
    /\ LogAndReturn(p, ok, UsageTx(user[p], call[p].amount))

\* ------------------------------------------------------------ addCredits
CallAddCredits(p, email, amount, subscriptionType, authUserId) ==
    /\ LogRoom
    /\ Balance(users, email) + amount + PendingGrants(Procs, email) <= MaxCredits
    /\ Begin(p, [op |-> "addCredits", email |-> email, amount |-> amount,
                 subscriptionType |-> subscriptionType,
                 authUserId |-> authUserId], "add_get", NoReq)

AddGet(p, ok) ==
    /\ pc[p] = "add_get"
    /\ \E res \in GetUserByEmail(users, call[p].email, ok) :
         /\ Read(p, ok, res)
         /\ IF res.err THEN Finish(p, Thrown("GET_USERS_ERROR"))
            ELSE IF res.user = NoUser /\ call[p].authUserId # NULL
                 THEN Goto(p, "add_create")
            ELSE IF res.user = NoUser
                 THEN Finish(p, Thrown("USER_NOT_FOUND"))
                 ELSE Goto(p, "add_verify")

AddCreate(p, ok) ==
    /\ pc[p] = "add_create"
    /\ CreateUser(p, ok, "add_verify")

\* "First, verify the user still exists before updating", then the admin client.
AddVerify(p, ok) ==
    LET verified == ok /\ \E r \in users : r.id = user[p].id
    IN  /\ pc[p] = "add_verify"
        /\ Answered(p, ok, "verify")
        /\ IF ~verified THEN Finish(p, Thrown("USER_VERIFICATION_ERROR"))
           ELSE IF ~adminAvailable
                THEN Finish(p, Thrown("NO_ADMIN_CLIENT_UPDATE"))
                ELSE Goto(p, "add_update")
        /\ UNCHANGED <<users, log, adminAvailable, call, user, req, pre, dirty,
                       appended, prev>>

\* .update(updateData).eq('id', userWithCredits.id).select()
AddUpdate(p, ok) ==
    LET found == \E r \in users : r.id = user[p].id
        applied == ok /\ found
    IN  /\ pc[p] = "add_update"
        /\ users' = IF applied
                    THEN UpdateById(users, user[p].id,
                             Grant(RowById(users, user[p].id), user[p],
                                   call[p].amount, call[p].subscriptionType))
                    ELSE users
        /\ Touch(p, call[p].email, applied)
        /\ Answered(p, ok, "update")
        /\ IF AddUpdateCheck(ok, found) # "ok"
           THEN Finish(p, Thrown(AddUpdateCheck(ok, found)))
           ELSE /\ pc' = [pc EXCEPT ![p] = "add_log"]
                /\ ret' = [ret EXCEPT ![p] =
                             [NoRet EXCEPT !.user = RowOf(users', call[p].email)]]
        /\ UNCHANGED <<log, adminAvailable, call, user, req, pre, appended, prev>>

AddLog(p, ok) ==
    /\ pc[p] = "add_log"
    /\ LogAndReturn(p, ok, PurchaseTx(user[p], call[p].amount,
                                      call[p].subscriptionType))

\* ------------------------------------------- POST /api/images/replicate
\* What the handler meets before it reaches the credit check.
PostInputs == {"ok", "no_token", "bad_password", "no_email"}

\* The response to a request that is refused before the credit check.
RefusedStatus(input) ==
    IF input = "no_token" THEN 500
    ELSE IF input = "bad_password" THEN 401
    ELSE 400

PostReceive(p, email, input) ==
    /\ LogRoom
    /\ Begin(p, [NoCall EXCEPT !.op = "POST", !.email = email],
             IF input = "ok" THEN "post_has" ELSE "done",
             [NoReq EXCEPT !.active = TRUE, !.flow = "POST",
                           !.status = IF input = "ok" THEN 0
                                      ELSE RefusedStatus(input)])

\* The handler answers without an image.
Respond(p, status) ==
    /\ req' = [req EXCEPT ![p].status = status]
    /\ pc' = [pc EXCEPT ![p] = "done"]
    /\ UNCHANGED ret

\* An advisory check of the handler: refused with the given status when the
\* check says no, 500 from the outer catch when it throws.
Gate(p, r, next, refusal) ==
    IF r.kind = "err" THEN Respond(p, 500)
    ELSE IF r.bool THEN /\ Goto(p, next)
                        /\ UNCHANGED req
    ELSE Respond(p, refusal)

\* Faulty variant of the credit check of the handler: one credit is enough.
PostHasEnoughOneCredit(p, ok) ==
    /\ pc[p] = "post_has"
    /\ \E res \in GetUserByEmail(users, call[p].email, ok) :
         /\ CheckRead(p, ok, res)
         /\ Gate(p, HasEnoughCredits(res, 1), "post_can", 402)

\* hasEnoughCredits(userEmail, REQUIRED_CREDITS), else 402.
PostHasEnough(p, ok) ==
    /\ pc[p] = "post_has"
    /\ \E res \in GetUserByEmail(users, call[p].email, ok) :
         /\ CheckRead(p, ok, res)
         /\ Gate(p, HasEnoughCredits(res, REQUIRED_CREDITS), "post_can", 402)

\* canAccessMultiplePhotos(userEmail), else 403.
PostCanAccess(p, ok) ==
    /\ pc[p] = "post_can"
    /\ \E res \in GetUserByEmail(users, call[p].email, ok) :
         /\ CheckRead(p, ok, res)
         /\ Gate(p, CanAccessMultiplePhotos(res), "post_gen", 403)

\* How the generation can end: no photo in the form (400), the prediction is
\* not created, polling fails, the prediction fails, polling times out, the
\* prediction has no output, the download fails, the file cannot be written
\* (all thrown, 500), or the image is obtained.
GenOutcomes ==
    {"no_images", "create_failed", "poll_failed", "prediction_failed",
     "timed_out", "no_output", "download_failed", "write_failed", "succeeded"}

GenStatus(outcome) == IF outcome = "no_images" THEN 400 ELSE 500

\* Faulty variant of the handler: useCredits whatever the generation gave.
AfterGenerationAlwaysDebits(outcome) == "use_get"

\* The handler after the request passed the checks: only a generation that
\* succeeded reaches useCredits(userEmail, REQUIRED_CREDITS).
AfterGeneration(outcome) == IF outcome = "succeeded" THEN "use_get" ELSE "done"

\* A flow has the outcome of its generation: it answers, or calls
\* useCredits(email, amount).
Proceed(p, outcome, next, amount, status) ==
    /\ pc' = [pc EXCEPT ![p] = next]
    /\ req' = [req EXCEPT ![p].outcome = outcome, ![p].status = status]
    /\ call' = [call EXCEPT ![p] =
                  IF next = "use_get"
                  THEN [NoCall EXCEPT !.op = "useCredits",
                                      !.email = call[p].email,
                                      !.amount = amount]
                  ELSE call[p]]
    /\ fault' = [fault EXCEPT ![p] = IF next = "use_get" THEN NULL ELSE fault[p]]
    /\ UNCHANGED <<users, log, adminAvailable, user, ret, pre, dirty, appended,
                   prev>>

PostGenerate(p, outcome) ==
    /\ pc[p] = "post_gen"
    /\ Proceed(p, outcome, AfterGeneration(outcome), REQUIRED_CREDITS,
               IF outcome = "succeeded" THEN 0 ELSE GenStatus(outcome))

\* Faulty variant of the response after useCredits: a debit that threw turns
\* the request into an error.
PostRespondFailsOnDebitError(p) ==
    /\ pc[p] = "post_debited"
    /\ req' = [req EXCEPT ![p].status = IF ret[p].kind = "err" THEN 500 ELSE 200,
                          ![p].image = (ret[p].kind # "err")]
    /\ pc' = [pc EXCEPT ![p] = "done"]
    /\ UNCHANGED <<users, log, adminAvailable, call, user, ret, pre, dirty,
                   appended, fault, prev>>

\* The response after useCredits returned or threw: the image either way, with
\* a warning when the debit failed.
PostRespond(p) ==
    /\ pc[p] = "post_debited"
    /\ req' = [req EXCEPT ![p].status = 200, ![p].image = TRUE,
                          ![p].warning = (ret[p].kind = "err")]
    /\ pc' = [pc EXCEPT ![p] = "done"]
    /\ UNCHANGED <<users, log, adminAvailable, call, user, ret, pre, dirty,
                   appended, fault, prev>>

\* ------------------------------------------------ page.tsx: handleApiCall
\* user.credits as the page holds it, read when the user data was last loaded.
CachedCredits == {0, 1}

\* How the fetch of /api/images can end: 401, another error status, a
\* response without images, or a response with images.
FetchOutcomes == {"unauthorized", "http_error", "no_images", "images"}

\* The page after the fetch: only a response with images reaches
\* consumeCredits(user.email, 1).
AfterFetch(outcome) == IF outcome = "images" THEN "use_get" ELSE "done"

\* handleApiCall of a signed-in user: refused on the page when the cached
\* balance is below 1.
HandleApiCall(p, email, credits) ==
    /\ LogRoom
    /\ Begin(p, [NoCall EXCEPT !.op = "handleApiCall", !.email = email],
             IF credits < 1 THEN "done" ELSE "page_fetch",
             [NoReq EXCEPT !.active = TRUE, !.flow = "handleApiCall",
                           !.outcome = IF credits < 1 THEN "no_credits"
                                       ELSE NULL])

PageFetch(p, outcome) ==
    /\ pc[p] = "page_fetch"
    /\ Proceed(p, outcome, AfterFetch(outcome), 1, 0)

\* The images are shown whether consumeCredits returned or threw.
PageShow(p) ==
    /\ pc[p] = "page_debited"
    /\ req' = [req EXCEPT ![p].image = TRUE]
    /\ pc' = [pc EXCEPT ![p] = "done"]
    /\ UNCHANGED <<users, log, adminAvailable, call, user, ret, pre, dirty,
                   appended, fault, prev>>

\* ------------------------------------------- webhooks: what the body says
\* PRODUCT_TIER_MAPPING[productId]; NoProduct stands for undefined.
NoProduct == [tier |-> NULL, monthlyCredits |-> 0, yearlyCredits |-> 0]

PRODUCT_TIER_MAPPING(productId) ==
    IF productId = "90143"
    THEN [tier |-> "basic", monthlyCredits |-> 5, yearlyCredits |-> 60]
    ELSE IF productId = "90211"
    THEN [tier |-> "standard", monthlyCredits |-> 10, yearlyCredits |-> 120]
    ELSE IF productId = "90212"
    THEN [tier |-> "premium", monthlyCredits |-> 30, yearlyCredits |-> 360]
    ELSE NoProduct

\* parseFloat(amount || '0'), in hundredths.
ParseFloat(amount) ==
    IF amount = NULL THEN 0
    ELSE IF amount = "9.99" THEN 999
    ELSE 0

\* POST of the groovesell-webhook route: the branch a body takes.
GrooveSellEvent(body) ==
    IF body.buyer_email = NULL \/ body.product_id = NULL THEN "missing_fields"
    ELSE IF PRODUCT_TIER_MAPPING(body.product_id) = NoProduct
    THEN "unknown_product"
    ELSE IF body.event = "subscription-trial-start" /\ body.trial_transaction = 1
    THEN "trial"
    ELSE IF body.event = "subscription-payment" /\ ParseFloat(body.amount) > 0
    THEN "payment"
    ELSE "ignored"

\* A route that would grant the monthly figure of the product whatever the
\* period of the payment.
GrooveSellCreditsMonthly(body) ==
    IF GrooveSellEvent(body) = "trial" THEN TRIAL_CREDITS
    ELSE PRODUCT_TIER_MAPPING(body.product_id).monthlyCredits

\* The amount and the period the groovesell-webhook route passes to addCredits.
GrooveSellCredits(body) ==
    IF GrooveSellEvent(body) = "trial" THEN TRIAL_CREDITS
    ELSE IF body.subscription_type = "Yearly"
    THEN PRODUCT_TIER_MAPPING(body.product_id).yearlyCredits
    ELSE PRODUCT_TIER_MAPPING(body.product_id).monthlyCredits

\* A route that would pass the period of the body for a trial as well.
GrooveSellPeriodOfTrial(body) ==
    IF body.subscription_type = "Yearly" THEN "yearly" ELSE "monthly"

GrooveSellPeriod(body) ==
    IF GrooveSellEvent(body) = "trial" THEN NULL
    ELSE IF body.subscription_type = "Yearly" THEN "yearly"
    ELSE "monthly"

\* A route that would process a payment whatever its amount.
CreditsEventAnyAmount(body) ==
    IF body.buyer_email = NULL THEN "missing_email"
    ELSE IF body.action = "get_balance" THEN "get_balance"
    ELSE IF body.event = NULL /\ body.action # "add_credits" THEN "invalid"
    ELSE IF body.event = "subscription-trial-start" THEN "trial"
    ELSE IF body.event = "subscription-payment" THEN "payment"
    ELSE IF body.action = "add_credits" THEN "manual"
    ELSE "ignored"

\* POST of the credits route: the branch a body takes.
CreditsEvent(body) ==
    IF body.buyer_email = NULL THEN "missing_email"
    ELSE IF body.action = "get_balance" THEN "get_balance"
    ELSE IF body.event = NULL /\ body.action # "add_credits" THEN "invalid"
    ELSE IF body.event = "subscription-trial-start" THEN "trial"
    ELSE IF body.event = "subscription-payment" /\ ParseFloat(body.amount) > 0
    THEN "payment"
    ELSE IF body.action = "add_credits" THEN "manual"
    ELSE "ignored"

\* A route whose manual branch would grant the monthly amount for a yearly
\* subscription.
CreditsToAddMonthlyForYearly(body) ==
    IF CreditsEvent(body) = "trial" THEN TRIAL_CREDITS
    ELSE IF CreditsEvent(body) = "payment" THEN MONTHLY_CREDITS
    ELSE IF body.subscription_type \in {"monthly", "yearly"}
    THEN MONTHLY_CREDITS
    ELSE TRIAL_CREDITS

\* creditsToAdd and subscriptionTypeForDb of the credits route.
CreditsToAdd(body) ==
    IF CreditsEvent(body) = "trial" THEN TRIAL_CREDITS
    ELSE IF CreditsEvent(body) = "payment" THEN MONTHLY_CREDITS
    ELSE IF body.subscription_type = "monthly" THEN MONTHLY_CREDITS
    ELSE IF body.subscription_type = "yearly" THEN YEARLY_CREDITS
    ELSE TRIAL_CREDITS

CreditsPeriod(body) ==
    IF CreditsEvent(body) = "trial" THEN NULL
    ELSE IF CreditsEvent(body) = "payment" THEN "monthly"
    ELSE IF body.subscription_type = "monthly" THEN "monthly"
    ELSE IF body.subscription_type = "yearly" THEN "yearly"
    ELSE NULL

\* The branches that go on to addCredits.
Granting(event) == event \in {"trial", "payment", "manual"}

\* ------------------------------------------------- webhooks: deliveries
\* A delivery is taken up only while the bounds leave room for its grant.
MaxBalance == 10

DeliveryRoom(email) == LogRoom /\ Balance(users, email) <= MaxBalance

\* Summary of the delivery a request has just answered, kept for a second
\* delivery of the same body to the same handler.
DeliverySummary(p, flow, body) ==
    IF req[p].active /\ req[p].flow = flow /\ req[p].payload = body
       /\ pc[p] = "done"
    THEN [op |-> flow, amount |-> call[p].amount,
          kind |-> IF call[p].op = "addCredits" /\ ret[p].kind = "ok"
                   THEN "ok" ELSE "err",
          existed |-> pre[p] # NoUser, balance |-> pre[p].credits,
          clean |-> ~dirty[p]]
    ELSE NoPrev

\* A handler receives a body: the branch it takes (event), the ledger call it
\* starts with (c, at first), or the response it gives at once (status).
Deliver(p, flow, body, event, c, first, status) ==
    /\ Idle(p)
    /\ DeliveryRoom(body.buyer_email)
    /\ call' = [call EXCEPT ![p] = c]
    /\ pc' = [pc EXCEPT ![p] = first]
    /\ user' = [user EXCEPT ![p] = NoUser]
    /\ ret' = [ret EXCEPT ![p] = NoRet]
    /\ req' = [req EXCEPT ![p] =
                 [NoReq EXCEPT !.active = TRUE, !.flow = flow,
                               !.payload = body, !.outcome = event,
                               !.status = status,
                               !.success = (status = 200),
                               !.error = (status = 400)]]
    /\ pre' = [pre EXCEPT ![p] = RowOf(users, body.buyer_email)]
    /\ dirty' = [dirty EXCEPT ![p] = FALSE]
    /\ appended' = [appended EXCEPT ![p] = <<>>]
    /\ fault' = [fault EXCEPT ![p] = NULL]
    /\ prev' = [prev EXCEPT ![p] = DeliverySummary(p, flow, body)]
    /\ UNCHANGED <<users, log, adminAvailable>>

GrantCall(email, amount, period, authUserId) ==
    [op |-> "addCredits", email |-> email, amount |-> amount,
     subscriptionType |-> period, authUserId |-> authUserId]

SignUpCall(email) == [NoCall EXCEPT !.op = "signUpUser", !.email = email]

HandlerCall(flow, email) == [NoCall EXCEPT !.op = flow, !.email = email]

\* signUpUser: without a password it only looks the id up.
SignUpFirst(body) ==
    IF body.password = NULL THEN "signup_get" ELSE "signup_auth"

\* What the handler of request p passes to addCredits.
GrantOf(p, authUserId) ==
    IF req[p].flow = "groovesell-webhook"
    THEN GrantCall(call[p].email, GrooveSellCredits(req[p].payload),
                   GrooveSellPeriod(req[p].payload), authUserId)
    ELSE GrantCall(call[p].email, CreditsToAdd(req[p].payload),
                   CreditsPeriod(req[p].payload), authUserId)

\* signUpUser has thrown (the code; NULL: it has not) or returned id (NULL:
\* null).  The credits route lets
\* the error reach its catch (500); the groovesell-webhook route goes on
\* without an id.  Then addCredits(email, amount, period, id || undefined).
SignedUp(p, thrown, id) ==
    IF thrown # NULL /\ req[p].flow = "credits"
    THEN /\ pc' = [pc EXCEPT ![p] = "done"]
         /\ ret' = [ret EXCEPT ![p] = Thrown(thrown)]
         /\ req' = [req EXCEPT ![p].status = 500, ![p].error = TRUE]
         /\ fault' = [fault EXCEPT ![p] = "signup"]
         /\ UNCHANGED call
    ELSE /\ pc' = [pc EXCEPT ![p] = "add_get"]
         /\ call' = [call EXCEPT ![p] = GrantOf(p, IF thrown # NULL THEN NULL
                                                  ELSE id)]
         /\ fault' = [fault EXCEPT ![p] = NULL]
         /\ UNCHANGED <<ret, req>>

\* How supabaseAdmin.auth.admin.createUser can end.
AuthOutcomes == {"created", "already_registered", "failed"}

\* signUpUser with a password: the identity provider creates the user.
SignUpAuth(p, outcome) ==
    /\ pc[p] = "signup_auth"
    /\ IF ~adminAvailable THEN SignedUp(p, "NO_ADMIN_CLIENT", NULL)
       ELSE IF outcome = "created" THEN SignedUp(p, NULL, AuthId(call[p].email))
       ELSE IF outcome = "failed" THEN SignedUp(p, "SIGNUP_USER_ERROR", NULL)
       ELSE /\ pc' = [pc EXCEPT ![p] = "signup_get"]
            /\ UNCHANGED <<call, ret, req, fault>>
    /\ UNCHANGED <<users, log, adminAvailable, user, pre, dirty, appended, prev>>

\* signUpUser: existingUser?.id || null.
SignUpGet(p, ok) ==
    /\ pc[p] = "signup_get"
    /\ \E res \in GetUserByEmail(users, call[p].email, ok) :
         SignedUp(p, IF res.err THEN "GET_USERS_ERROR" ELSE NULL, res.user.id)
    /\ UNCHANGED <<users, log, adminAvailable, user, pre, dirty, appended, prev>>

\* ------------------------------------------- POST /api/groovesell-webhook
GrooveSellStatus(event) ==
    IF event \in {"missing_fields", "unknown_product"} THEN 400
    ELSE IF event = "ignored" THEN 200
    ELSE 0

GrooveSellReceive(p, body) ==
    LET event == GrooveSellEvent(body)
    IN  Deliver(p, "groovesell-webhook", body, event,
                IF event = "payment"
                THEN GrantCall(body.buyer_email, GrooveSellCredits(body),
                               GrooveSellPeriod(body), NULL)
                ELSE IF event = "trial" THEN SignUpCall(body.buyer_email)
                ELSE HandlerCall("groovesell-webhook", body.buyer_email),
                IF event = "payment" THEN "add_get"
                ELSE IF event = "trial" THEN SignUpFirst(body)
                ELSE "done",
                GrooveSellStatus(event))

\* A catch that would answer with status 500, as the one of the credits route.
GrooveSellFailedWithStatus500(p) ==
    /\ pc[p] = "gs_granted"
    /\ ret[p].kind = "err"
    /\ req' = [req EXCEPT ![p].status = 500, ![p].success = FALSE,
                          ![p].error = TRUE]
    /\ pc' = [pc EXCEPT ![p] = "done"]
    /\ UNCHANGED <<users, log, adminAvailable, call, user, ret, pre, dirty,
                   appended, fault, prev>>

\* The outer catch: success: true, the message of the error.
GrooveSellFailed(p) ==
    /\ pc[p] = "gs_granted"
    /\ ret[p].kind = "err"
    /\ req' = [req EXCEPT ![p].status = 200, ![p].success = TRUE,
                          ![p].error = TRUE]
    /\ pc' = [pc EXCEPT ![p] = "done"]
    /\ UNCHANGED <<users, log, adminAvailable, call, user, ret, pre, dirty,
                   appended, fault, prev>>

\* .update({subscription_tier: productConfig.tier}).eq('id', updatedUser.id)
SetTier(r, tier) == [r EXCEPT !.subscription_tier = tier]

\* After addCredits returned: the tier update, whose failure is not looked at,
\* and the response.
GrooveSellTier(p, ok) ==
    LET id == ret[p].user.id
        applied == adminAvailable /\ ok /\ \E r \in users : r.id = id
    IN  /\ pc[p] = "gs_granted"
        /\ ret[p].kind = "ok"
        /\ users' = IF applied
                    THEN UpdateById(users, id,
                             SetTier(RowById(users, id),
                                 PRODUCT_TIER_MAPPING(
                                     req[p].payload.product_id).tier))
                    ELSE users
        /\ Touch(p, call[p].email, applied)
        /\ Answered(p, adminAvailable /\ ok, "tier")
        /\ req' = [req EXCEPT ![p].status = 200, ![p].success = TRUE]
        /\ pc' = [pc EXCEPT ![p] = "done"]
        /\ UNCHANGED <<log, adminAvailable, call, user, ret, pre, appended, prev>>

\* ------------------------------------------------------ POST /api/credits
CreditsStatus(event) ==
    IF event \in {"missing_email", "invalid"} THEN 400
    ELSE IF event = "ignored" THEN 200
    ELSE 0

CreditsReceive(p, body) ==
    LET event == CreditsEvent(body)
    IN  Deliver(p, "credits", body, event,
                IF event = "get_balance"
                THEN [NoCall EXCEPT !.op = "getCreditBalance",
                                    !.email = body.buyer_email]
                ELSE IF Granting(event) THEN SignUpCall(body.buyer_email)
                ELSE HandlerCall("credits", body.buyer_email),
                IF event = "get_balance" THEN "bal_get"
                ELSE IF Granting(event) THEN SignUpFirst(body)
                ELSE "done",
                CreditsStatus(event))

\* The response after getCreditBalance or addCredits: 500 from the catch when
\* addCredits threw.
CreditsRespond(p) ==
    /\ pc[p] = "cr_granted"
    /\ req' = [req EXCEPT ![p].status = IF ret[p].kind = "err" THEN 500 ELSE 200,
                          ![p].success = (ret[p].kind = "ok"
                                          /\ call[p].op = "addCredits"),
                          ![p].error = (ret[p].kind = "err")]
    /\ pc' = [pc EXCEPT ![p] = "done"]
    /\ UNCHANGED <<users, log, adminAvailable, call, user, ret, pre, dirty,
                   appended, fault, prev>>

\* ------------------------------------------------------- specification
Init ==
    /\ users = {}
    /\ log = <<>>
    /\ adminAvailable \in BOOLEAN
    /\ pc = [p \in Procs |-> "idle"]
    /\ call = [p \in Procs |-> NoCall]
    /\ user = [p \in Procs |-> NoUser]
    /\ ret = [p \in Procs |-> NoRet]
    /\ req = [p \in Procs |-> NoReq]
    /\ pre = [p \in Procs |-> NoUser]
    /\ dirty = [p \in Procs |-> FALSE]
    /\ appended = [p \in Procs |-> <<>>]
    /\ fault = [p \in Procs |-> NULL]
    /\ prev = [p \in Procs |-> NoPrev]

\* One request at a time: the operations and the handler as their callers see
\* them.
Next ==
    \E p \in {"r1"} :
        \/ \E email \in Emails :
              \/ CallGetOrCreateUser(p, email)
              \/ CallGetCreditBalance(p, email)
              \/ \E n \in UseAmounts : CallHasEnoughCredits(p, email, n)
              \/ CallCanAccessMultiplePhotos(p, email)
              \/ \E n \in UseAmounts : CallUseCredits(p, email, n)
              \/ \E n \in AddAmounts, t \in SubscriptionTypes \cup {NULL},
                    id \in {NULL, AuthId(email)} :
                    CallAddCredits(p, email, n, t, id)
              \/ \E input \in PostInputs : PostReceive(p, email, input)
        \/ \E ok \in BOOLEAN :
              \/ GocGet(p, ok) \/ GocCreate(p, ok)
              \/ BalGet(p, ok) \/ HasGet(p, ok) \/ CanGet(p, ok)
              \/ UseGet(p, ok) \/ UseUpdate(p, ok) \/ UseLog(p, ok)
              \/ AddGet(p, ok) \/ AddCreate(p, ok) \/ AddVerify(p, ok)
              \/ AddUpdate(p, ok) \/ AddLog(p, ok)
              \/ PostHasEnough(p, ok) \/ PostCanAccess(p, ok)
        \/ \E outcome \in GenOutcomes : PostGenerate(p, outcome)
        \/ PostRespond(p)
        \/ \E email \in Emails, credits \in CachedCredits :
              HandleApiCall(p, email, credits)
        \/ \E outcome \in FetchOutcomes : PageFetch(p, outcome)
        \/ PageShow(p)

Spec == Init /\ [][Next]_vars

\* The bodies the handlers are sent.
Body(event, email, productId, period, amount, trial, password, action) ==
    [event |-> event, buyer_email |-> email, product_id |-> productId,
     subscription_type |-> period, amount |-> amount,
     trial_transaction |-> trial, password |-> password, action |-> action]

Passwords == {NULL, "secret"}
SentProducts == {"90143", "90211"}
SentEmail == CHOOSE email \in Emails : TRUE

\* Trial starts, payments, events to ignore (a free payment, a payment
\* without amount, a sale, a trial start that is no trial transaction), and
\* bodies without email, without product or with an unknown product.
GrooveSellBodies ==
    {Body("subscription-trial-start", SentEmail, pid, "Monthly", "0.00", 1,
          pw, NULL) : pid \in SentProducts, pw \in Passwords}
    \cup {Body("subscription-payment", SentEmail, pid, period, "9.99", 0,
               NULL, NULL) : pid \in SentProducts,
                             period \in {"Yearly", "Monthly"}}
    \cup {Body("subscription-payment", SentEmail, "90143", period, amount, 0,
               NULL, NULL) : period \in {"Yearly", "Monthly"},
                             amount \in {"0.00", NULL}}
    \cup {Body(event, SentEmail, "90211", "Monthly", "9.99", 0, "secret",
               NULL) : event \in {"sales", "subscription-trial-start"}}
    \cup {Body(event, email, pid, "Yearly", "9.99", 1, "secret", NULL) :
             event \in {"subscription-trial-start", "sales"},
             email \in {NULL},
             pid \in {"90143"}}
    \cup {Body(event, SentEmail, pid, "Monthly", amount, 1, NULL, NULL) :
             event \in {"subscription-trial-start", "subscription-payment"},
             pid \in {"00000", NULL},
             amount \in {"0.00", "9.99"}}

\* Trial starts, payments, manual calls (add_credits, get_balance), events to
\* ignore, and bodies without email or without event and action.
CreditsBodies ==
    {Body("subscription-trial-start", SentEmail, NULL, NULL, NULL, 0, pw,
          NULL) : pw \in Passwords}
    \cup {Body("subscription-payment", SentEmail, NULL, period, "9.99", 0, pw,
               NULL) : period \in {"Yearly", "Monthly"}, pw \in Passwords}
    \cup {Body(event, SentEmail, NULL, period, "0.00", 0, "secret",
               "add_credits") :
             event \in {NULL, "subscription-payment"},
             period \in {"monthly", "yearly", "trial", "lifetime", NULL}}
    \cup {Body(event, SentEmail, NULL, NULL, NULL, 0, NULL, "get_balance") :
             event \in {NULL, "sales"}}
    \cup {Body(event, SentEmail, NULL, "Monthly", amount, 0, "secret", NULL) :
             event \in {"sales", "subscription-payment"},
             amount \in {"0.00", NULL}}
    \cup {Body(event, NULL, NULL, NULL, "9.99", 0, NULL, action) :
             event \in {"subscription-payment"},
             action \in {NULL, "add_credits"}}
    \cup {Body(NULL, SentEmail, NULL, "monthly", "9.99", 0, NULL, NULL)}

\* Deliveries to the two handlers of subscription events, one at a time.
NextWebhook ==
    \E p \in {"r1"} :
        \/ \E body \in GrooveSellBodies : GrooveSellReceive(p, body)
        \/ \E body \in CreditsBodies : CreditsReceive(p, body)
        \/ \E outcome \in AuthOutcomes : SignUpAuth(p, outcome)
        \/ \E ok \in BOOLEAN :
              \/ SignUpGet(p, ok)
              \/ AddGet(p, ok) \/ AddCreate(p, ok) \/ AddVerify(p, ok)
              \/ AddUpdate(p, ok) \/ AddLog(p, ok)
              \/ BalGet(p, ok)
              \/ GrooveSellTier(p, ok)
        \/ GrooveSellFailed(p)
        \/ CreditsRespond(p)

SpecWebhook == Init /\ [][NextWebhook]_vars

\* The values of subscription_tier: the tiers of PRODUCT_TIER_MAPPING, or null.
Tiers == {NULL, "basic", "standard", "premium"}

\* An account as deliveries and debits leave it: some tier, some balance.
Account(email, tier, credits) ==
    [NewUser(AuthId(email), email) EXCEPT !.subscription_tier = tier,
                                          !.credits = credits]

\* The access gate of the generation handler and the two advisory checks,
\* for an email without an account or with an account of any tier and balance.
InitGate ==
    /\ users \in {{}} \cup {{Account(email, tier, credits)} :
                               email \in Emails, tier \in Tiers,
                               credits \in 0..MaxCredits}
    /\ log = <<>>
    /\ adminAvailable \in BOOLEAN
    /\ pc = [p \in Procs |-> "idle"]
    /\ call = [p \in Procs |-> NoCall]
    /\ user = [p \in Procs |-> NoUser]
    /\ ret = [p \in Procs |-> NoRet]
    /\ req = [p \in Procs |-> NoReq]
    /\ pre = [p \in Procs |-> NoUser]
    /\ dirty = [p \in Procs |-> FALSE]
    /\ appended = [p \in Procs |-> <<>>]
    /\ fault = [p \in Procs |-> NULL]
    /\ prev = [p \in Procs |-> NoPrev]

NextGate ==
    \E p \in {"r1"} :
        \/ \E email \in Emails :
              \/ \E n \in UseAmounts : CallHasEnoughCredits(p, email, n)
              \/ CallCanAccessMultiplePhotos(p, email)
              \/ \E input \in PostInputs : PostReceive(p, email, input)
        \/ \E ok \in BOOLEAN :
              \/ HasGet(p, ok) \/ CanGet(p, ok)
              \/ PostHasEnough(p, ok) \/ PostCanAccess(p, ok)
              \/ UseGet(p, ok) \/ UseUpdate(p, ok) \/ UseLog(p, ok)
        \/ \E outcome \in GenOutcomes : PostGenerate(p, outcome)
        \/ PostRespond(p)

SpecGate == InitGate /\ [][NextGate]_vars

\* Two requests at once, each making one call: a ledger operation or a
\* generation request.  Their store calls interleave in every order.
NextConcurrent ==
    \E p \in Procs :
        \/ /\ pc[p] = "idle"
           /\ \E email \in Emails :
                 \/ CallGetOrCreateUser(p, email)
                 \/ \E n \in UseAmounts : CallUseCredits(p, email, n)
                 \/ \E n \in AddAmounts, id \in {NULL, AuthId(email)} :
                       CallAddCredits(p, email, n, NULL, id)
                 \/ PostReceive(p, email, "ok")
        \/ \E ok \in BOOLEAN :
              \/ GocGet(p, ok) \/ GocCreate(p, ok)
              \/ UseGet(p, ok) \/ UseUpdate(p, ok) \/ UseLog(p, ok)
              \/ AddGet(p, ok) \/ AddCreate(p, ok) \/ AddVerify(p, ok)
              \/ AddUpdate(p, ok) \/ AddLog(p, ok)
              \/ PostHasEnough(p, ok) \/ PostCanAccess(p, ok)
        \/ \E outcome \in {"create_failed", "succeeded"} :
              PostGenerate(p, outcome)
        \/ PostRespond(p)

SpecConcurrent == InitGate /\ [][NextConcurrent]_vars

\* One ledger operation at a time, on a store whose transaction log accepts
\* every append.
NextLogged ==
    \E p \in {"r1"} :
        \/ \E email \in Emails :
              \/ CallGetOrCreateUser(p, email)
              \/ \E n \in UseAmounts : CallUseCredits(p, email, n)
              \/ \E n \in AddAmounts, t \in SubscriptionTypes \cup {NULL},
                    id \in {NULL, AuthId(email)} :
                    CallAddCredits(p, email, n, t, id)
        \/ \E ok \in BOOLEAN :
              \/ GocGet(p, ok) \/ GocCreate(p, ok)
              \/ UseGet(p, ok) \/ UseUpdate(p, ok)
              \/ AddGet(p, ok) \/ AddCreate(p, ok) \/ AddVerify(p, ok)
              \/ AddUpdate(p, ok)
        \/ UseLog(p, TRUE)
        \/ AddLog(p, TRUE)

SpecLogged == Init /\ [][NextLogged]_vars

\* ------------------------------------------------------------ properties
\* The ledger operation op of request p has returned or thrown.
Completed(p, op) ==
    pc[p] \in {"done", "post_debited", "page_debited"} /\ call[p].op = op

\* The store answered the lookup of the operation of request p.
LookedUp(p) == fault[p] # "lookup"

\* The row the store now holds for the account of request p.
Stored(p) == RowOf(users, call[p].email)

\* C1: when addCredits(email, N) on an existing account with balance B has
\* returned the account and nothing else wrote the account, a following
\* getCreditBalance(email) whose lookup the store answers returns B + N.
C1_BalanceAfterAddCredits ==
    \A p \in Procs :
        ( /\ Completed(p, "getCreditBalance")
          /\ LookedUp(p)
          /\ ~dirty[p]
          /\ prev[p].op = "addCredits"
          /\ prev[p].kind = "ok"
          /\ prev[p].clean )
        => ret[p].kind = "ok" /\ ret[p].num = prev[p].balance + prev[p].amount

C1_Witness ==
    \E p \in Procs :
        /\ Completed(p, "getCreditBalance")
        /\ LookedUp(p)
        /\ prev[p].op = "addCredits"
        /\ prev[p].kind = "ok"
        /\ prev[p].existed
        /\ prev[p].balance > 0
        /\ ret[p].num = prev[p].balance + prev[p].amount

\* The only row the operation of request p has appended is a usage row of
\* -amount for the account it was called on.
OneUsageRow(p) ==
    /\ Len(appended[p]) = 1
    /\ appended[p][1].user_id = pre[p].id
    /\ appended[p][1].transaction_type = "usage"
    /\ appended[p][1].amount = 0 - call[p].amount

\* C2 as claimed: a useCredits(email, A) call on an account with balance
\* B >= A that returns the account leaves the stored balance at B - A and has
\* appended exactly one transaction, of kind usage and amount -A.
C2_ExactlyOneUsageRow ==
    \A p \in Procs :
        ( /\ Completed(p, "useCredits")
          /\ ret[p].kind = "ok"
          /\ ~dirty[p] )
        => /\ pre[p] # NoUser
           /\ pre[p].credits >= call[p].amount
           /\ Stored(p).credits = pre[p].credits - call[p].amount
           /\ OneUsageRow(p)

\* C2 amended: such a call leaves the stored balance at B - A, returns the
\* account with that balance, and has appended exactly one transaction, of kind
\* usage and amount -A, unless the insert into the log failed, in which case it
\* has appended none; it never appends more than one.
C2_UsageRowUnlessLogFails ==
    \A p \in Procs :
        ( /\ Completed(p, "useCredits")
          /\ ret[p].kind = "ok"
          /\ ~dirty[p] )
        => /\ pre[p] # NoUser
           /\ pre[p].credits >= call[p].amount
           /\ Stored(p).credits = pre[p].credits - call[p].amount
           /\ ret[p].user = Stored(p)
           /\ IF fault[p] = "log" THEN appended[p] = <<>> ELSE OneUsageRow(p)

C2_Witness ==
    \E p \in Procs :
        /\ Completed(p, "useCredits")
        /\ ret[p].kind = "ok"
        /\ pre[p].credits > call[p].amount
        /\ fault[p] = NULL
        /\ Stored(p).credits = pre[p].credits - call[p].amount
        /\ Len(appended[p]) = 1

\* C3: useCredits(email, A) on an account whose balance B is below A, when the
\* store answers its lookup, throws INSUFFICIENT_CREDITS and leaves the
\* account's row (balance and subscription fields) and the log as they were.
C3_InsufficientCredits ==
    \A p \in Procs :
        ( /\ Completed(p, "useCredits")
          /\ LookedUp(p)
          /\ ~dirty[p]
          /\ pre[p] # NoUser
          /\ pre[p].credits < call[p].amount )
        => /\ ret[p].kind = "err"
           /\ ret[p].code = "INSUFFICIENT_CREDITS"
           /\ Stored(p) = pre[p]
           /\ appended[p] = <<>>

C3_Witness ==
    \E p \in Procs :
        /\ Completed(p, "useCredits")
        /\ pre[p] # NoUser
        /\ pre[p].credits > 0
        /\ pre[p].credits < call[p].amount
        /\ pre[p].subscription_type # NULL
        /\ ret[p].code = "INSUFFICIENT_CREDITS"

\* C4: useCredits for an email without an account, when the store answers its
\* lookup, throws USER_NOT_FOUND; afterwards there is still no account for the
\* email and no transaction has been appended.
C4_UserNotFound ==
    \A p \in Procs :
        ( /\ Completed(p, "useCredits")
          /\ LookedUp(p)
          /\ ~dirty[p]
          /\ pre[p] = NoUser )
        => /\ ret[p].kind = "err"
           /\ ret[p].code = "USER_NOT_FOUND"
           /\ Matching(users, call[p].email) = {}
           /\ appended[p] = <<>>

C4_Witness ==
    \E p \in Procs :
        /\ Completed(p, "useCredits")
        /\ pre[p] = NoUser
        /\ ret[p].code = "USER_NOT_FOUND"

\* C5: hasEnoughCredits never throws, and returns true whenever its lookup
\* fails.
C5_HasEnoughCreditsFailsOpen ==
    \A p \in Procs :
        Completed(p, "hasEnoughCredits")
        => /\ ret[p].kind = "ok"
           /\ fault[p] = "lookup" => ret[p].bool = TRUE

C5_Witness ==
    \E p \in Procs :
        /\ Completed(p, "hasEnoughCredits")
        /\ fault[p] = "lookup"
        /\ pre[p] # NoUser
        /\ pre[p].credits < call[p].amount
        /\ ret[p].kind = "ok"
        /\ ret[p].bool = TRUE

\* C6: when the store answers, hasEnoughCredits(email, required) returns false
\* if the email has no account, and otherwise true exactly when the account's
\* balance is >= required.
C6_HasEnoughCreditsHealthy ==
    \A p \in Procs :
        ( /\ Completed(p, "hasEnoughCredits")
          /\ LookedUp(p)
          /\ ~dirty[p] )
        => /\ ret[p].kind = "ok"
           /\ ret[p].bool = (pre[p] # NoUser /\ pre[p].credits >= call[p].amount)

C6_Witness ==
    \E p \in Procs :
        /\ Completed(p, "hasEnoughCredits")
        /\ LookedUp(p)
        /\ pre[p] # NoUser
        /\ pre[p].credits = call[p].amount
        /\ ret[p].bool = TRUE

\* C7: getCreditBalance never throws; it returns 0 when its lookup fails and
\* when there is no account, and the stored balance otherwise.
C7_GetCreditBalanceNeverThrows ==
    \A p \in Procs :
        Completed(p, "getCreditBalance")
        => /\ ret[p].kind = "ok"
           /\ fault[p] = "lookup" => ret[p].num = 0
           /\ (LookedUp(p) /\ ~dirty[p])
                => ret[p].num = (IF pre[p] = NoUser THEN 0 ELSE pre[p].credits)

C7_Witness ==
    \E p \in Procs :
        /\ Completed(p, "getCreditBalance")
        /\ fault[p] = "lookup"
        /\ pre[p].credits > 0
        /\ ret[p].kind = "ok"
        /\ ret[p].num = 0

\* C8: when the lookup (or the read that verifies the account before the
\* update of addCredits) or the balance update of useCredits or addCredits
\* fails in the store, the call throws (it returns no account), the stored balance
\* is what it was at the call, and the call has appended no transaction.
C8_MutationsFailClosed ==
    \A p \in Procs :
        ( /\ Completed(p, "useCredits") \/ Completed(p, "addCredits")
          /\ fault[p] \in {"lookup", "verify", "update"} )
        => /\ ret[p].kind = "err"
           /\ ret[p].user = NoUser
           /\ appended[p] = <<>>
           /\ ~dirty[p] => Balance(users, call[p].email) = pre[p].credits

C8_Witness ==
    \E p \in Procs :
        /\ Completed(p, "addCredits")
        /\ fault[p] = "update"
        /\ pre[p].credits > 0
        /\ ret[p].kind = "err"
        /\ Balance(users, call[p].email) = pre[p].credits

\* C9: when the balance update of useCredits or addCredits succeeded and the
\* insert into the log then fails, the call returns the updated account and
\* the stored balance stays as written.
C9_LogFailureIsSwallowed ==
    \A p \in Procs :
        ( /\ Completed(p, "useCredits") \/ Completed(p, "addCredits")
          /\ fault[p] = "log" )
        => /\ ret[p].kind = "ok"
           /\ ret[p].user # NoUser
           /\ ~dirty[p] =>
                /\ Stored(p) = ret[p].user
                /\ Stored(p).credits =
                     IF call[p].op = "useCredits"
                     THEN pre[p].credits - call[p].amount
                     ELSE pre[p].credits + call[p].amount

C9_Witness ==
    \E p \in Procs :
        /\ Completed(p, "useCredits")
        /\ fault[p] = "log"
        /\ ret[p].kind = "ok"
        /\ appended[p] = <<>>
        /\ Stored(p).credits = pre[p].credits - call[p].amount

\* A generation that produced an image.
Generated(outcome) == outcome \in {"succeeded", "images"}

\* C10: a generation flow (the replicate handler, handleApiCall of the page)
\* calls useCredits only after the generation succeeded; a request whose
\* generation failed, timed out or gave no output never enters useCredits,
\* appends no transaction, leaves the account's row as it was and delivers no
\* image.
C10_DebitOnlyAfterGeneration ==
    \A p \in Procs :
        req[p].active
        => /\ call[p].op = "useCredits" => Generated(req[p].outcome)
           /\ (req[p].outcome # NULL /\ ~Generated(req[p].outcome))
                => /\ call[p].op = req[p].flow
                   /\ pc[p] = "done"
                   /\ appended[p] = <<>>
                   /\ ~req[p].image
                   /\ ~dirty[p] => Stored(p) = pre[p]

C10_Witness ==
    \E p \in Procs :
        /\ req[p].active
        /\ req[p].flow = "POST"
        /\ req[p].outcome = "timed_out"
        /\ pc[p] = "done"
        /\ pre[p].credits >= REQUIRED_CREDITS
        /\ Stored(p) = pre[p]
        /\ req[p].status = 500

\* C11: when the generation succeeded and useCredits then threw, whatever the
\* error, the request ends with the image delivered; the replicate handler
\* answers 200 with the image and a warning.
C11_ImageReturnedWhenDebitFails ==
    \A p \in Procs :
        ( /\ req[p].active
          /\ Generated(req[p].outcome)
          /\ pc[p] = "done"
          /\ ret[p].kind = "err" )
        => /\ req[p].image
           /\ req[p].flow = "POST" => (req[p].status = 200 /\ req[p].warning)

C11_Witness ==
    \E p \in Procs :
        /\ req[p].active
        /\ req[p].flow = "POST"
        /\ req[p].outcome = "succeeded"
        /\ pc[p] = "done"
        /\ ret[p].code = "INSUFFICIENT_CREDITS"
        /\ req[p].image
        /\ req[p].warning

\* A generation request (replicate handler or page) that has ended.
GenerationEnded(p) ==
    /\ req[p].active
    /\ req[p].flow \in {"POST", "handleApiCall"}
    /\ pc[p] = "done"

\* C12 as claimed: without concurrent operations and without a failure of the
\* log insert, a generation request never ends with the balance lowered and
\* no image delivered, and never ends with the image delivered and the balance
\* not lowered by the cost.
C12_ChargedIffDelivered ==
    \A p \in Procs :
        (GenerationEnded(p) /\ ~dirty[p] /\ fault[p] # "log")
        => /\ Stored(p).credits < pre[p].credits => req[p].image
           /\ req[p].image
                => Stored(p).credits = pre[p].credits - call[p].amount

\* C12 amended: without concurrent operations, a generation request never ends
\* with the balance lowered and no image delivered; when it ends with the image
\* delivered, either useCredits returned and the balance is lower by the cost,
\* or useCredits threw, the account's row is as it was, and the replicate
\* handler's response carries the warning.
C12_ChargedOnlyIfDelivered ==
    \A p \in Procs :
        (GenerationEnded(p) /\ ~dirty[p])
        => /\ Stored(p).credits < pre[p].credits => req[p].image
           /\ req[p].image
                => /\ call[p].op = "useCredits"
                   /\ IF ret[p].kind = "ok"
                      THEN Stored(p).credits = pre[p].credits - call[p].amount
                      ELSE /\ Stored(p) = pre[p]
                           /\ req[p].flow = "POST" => req[p].warning

C12_Witness ==
    \E p \in Procs :
        /\ GenerationEnded(p)
        /\ req[p].flow = "POST"
        /\ req[p].image
        /\ fault[p] = "update"
        /\ ret[p].kind = "err"
        /\ pre[p].credits >= REQUIRED_CREDITS
        /\ Stored(p) = pre[p]

\* C18: when the store answers, getOrCreateUser returns the account of the
\* email unchanged if there is one, and otherwise inserts one row with balance
\* 0 and no subscription tier, period or expiry and returns it; afterwards the
\* email has exactly that one row, and a second call returns the row the first
\* one created and inserts nothing.
C18_GetOrCreateUser ==
    \A p \in Procs :
        ( /\ Completed(p, "getOrCreateUser")
          /\ fault[p] = NULL
          /\ ~dirty[p] )
        => /\ ret[p].kind = "ok"
           /\ Matching(users, call[p].email) = {ret[p].user}
           /\ IF pre[p] # NoUser THEN ret[p].user = pre[p]
              ELSE /\ ret[p].user.email = call[p].email
                   /\ ret[p].user.credits = 0
                   /\ ret[p].user.subscription_tier = NULL
                   /\ ret[p].user.subscription_type = NULL
                   /\ ret[p].user.subscription_expires_at = NULL
           /\ (prev[p].op = "getOrCreateUser" /\ prev[p].kind = "ok")
                => pre[p] # NoUser

C18_Witness ==
    \E p \in Procs :
        /\ Completed(p, "getOrCreateUser")
        /\ fault[p] = NULL
        /\ prev[p].op = "getOrCreateUser"
        /\ prev[p].kind = "ok"
        /\ ~prev[p].existed
        /\ ret[p].user = pre[p]
        /\ Cardinality(users) = 1

\* The only row the operation of request p has appended is a purchase row of
\* +amount for the account now stored for its email.
OnePurchaseRow(p) ==
    /\ Len(appended[p]) = 1
    /\ appended[p][1].user_id = Stored(p).id
    /\ appended[p][1].transaction_type = "purchase"
    /\ appended[p][1].amount = call[p].amount

\* addCredits of request p has ended, was called for an email without an
\* account, every store call it made was answered and the admin client exists.
AddedForUnseenEmail(p) ==
    /\ Completed(p, "addCredits")
    /\ ~req[p].active
    /\ pre[p] = NoUser
    /\ fault[p] = NULL
    /\ adminAvailable
    /\ ~dirty[p]

C20_PeriodSetOnlyWhenSupplied ==
    \A p \in Procs :
        ( /\ Completed(p, "addCredits")
          /\ ~req[p].active
          /\ ret[p].kind = "ok"
          /\ ~dirty[p] )
        => /\ Stored(p).credits = pre[p].credits + call[p].amount
           /\ Stored(p).subscription_tier = pre[p].subscription_tier
           /\ IF call[p].subscriptionType = "monthly"
              THEN /\ Stored(p).subscription_type = "monthly"
                   /\ Stored(p).subscription_expires_at = "now+1month"
              ELSE IF call[p].subscriptionType = "yearly"
              THEN /\ Stored(p).subscription_type = "yearly"
                   /\ Stored(p).subscription_expires_at = "now+1year"
              ELSE /\ Stored(p).subscription_type = pre[p].subscription_type
                   /\ Stored(p).subscription_expires_at =
                          pre[p].subscription_expires_at

C20_Witness ==
    \E p \in Procs :
        /\ Completed(p, "addCredits")
        /\ ~req[p].active
        /\ ret[p].kind = "ok"
        /\ call[p].subscriptionType = NULL
        /\ pre[p].subscription_type = "yearly"
        /\ Stored(p).subscription_type = "yearly"
        /\ Stored(p).subscription_expires_at = "now+1year"
        /\ Stored(p).credits > pre[p].credits


\* The handler of request p has answered a delivery that took the branch
\* event, its addCredits call returned, and no other request wrote the account
\* meanwhile.
Processed(p, event) ==
    /\ pc[p] = "done"
    /\ req[p].active
    /\ req[p].flow \in {"groovesell-webhook", "credits"}
    /\ req[p].outcome = event
    /\ call[p].op = "addCredits"
    /\ ret[p].kind = "ok"
    /\ ~dirty[p]

\* The delivery request p has answered is the second one of the same body to
\* the same handler, and the first one was processed too.
Redelivered(p) ==
    /\ prev[p].op = req[p].flow
    /\ prev[p].kind = "ok"
    /\ prev[p].clean

\* C13: when the same trial-start body is delivered twice to a handler and
\* both deliveries are processed, the second grants TRIAL_CREDITS again: the
\* balance after the two deliveries is the balance before the first plus
\* twice TRIAL_CREDITS.
C13_TrialDeliveredTwiceGrantsTwice ==
    \A p \in Procs :
        Processed(p, "trial") /\ Redelivered(p)
        => /\ prev[p].amount = TRIAL_CREDITS
           /\ pre[p].credits = prev[p].balance + TRIAL_CREDITS
           /\ Stored(p).credits = prev[p].balance + 2 * TRIAL_CREDITS

C13_Witness ==
    \E p \in Procs :
        /\ Processed(p, "trial")
        /\ Redelivered(p)
        /\ req[p].flow = "groovesell-webhook"
        /\ Stored(p).credits = 2 * TRIAL_CREDITS
        /\ Len(log) = 2


\* The tier of the product a groovesell-webhook body names.
ProductTier(p) ==
    IF req[p].payload.product_id = "90143" THEN "basic"
    ELSE IF req[p].payload.product_id = "90211" THEN "standard"
    ELSE "premium"

\* C14 as claimed: a processed trial-start event grants exactly TRIAL_CREDITS
\* and leaves the subscription tier, the subscription period and the expiry of
\* the account as they were.
C14_TrialGrantsCreditsOnly ==
    \A p \in Procs :
        Processed(p, "trial")
        => /\ call[p].amount = TRIAL_CREDITS
           /\ Stored(p).credits = pre[p].credits + TRIAL_CREDITS
           /\ Stored(p).subscription_type = pre[p].subscription_type
           /\ Stored(p).subscription_expires_at = pre[p].subscription_expires_at
           /\ Stored(p).subscription_tier = pre[p].subscription_tier

\* C14 amended: a processed trial-start event grants exactly TRIAL_CREDITS and
\* leaves the subscription period and the expiry as they were; the credits
\* route leaves the tier as well, while the groovesell-webhook route then sets
\* the tier to the tier of the product, unless that update fails.
C14_TrialGrantsCreditsAndProductTier ==
    \A p \in Procs :
        Processed(p, "trial")
        => /\ call[p].amount = TRIAL_CREDITS
           /\ Stored(p).credits = pre[p].credits + TRIAL_CREDITS
           /\ Stored(p).subscription_type = pre[p].subscription_type
           /\ Stored(p).subscription_expires_at = pre[p].subscription_expires_at
           /\ Stored(p).subscription_tier =
                  IF req[p].flow = "groovesell-webhook" /\ fault[p] # "tier"
                  THEN ProductTier(p)
                  ELSE pre[p].subscription_tier

C14_Witness ==
    \E p \in Procs :
        /\ Processed(p, "trial")
        /\ req[p].flow = "groovesell-webhook"
        /\ pre[p].subscription_type = "monthly"
        /\ pre[p].subscription_tier = "basic"
        /\ Stored(p).subscription_type = "monthly"
        /\ Stored(p).subscription_expires_at = "now+1month"
        /\ Stored(p).subscription_tier = "standard"
        /\ Stored(p).credits = pre[p].credits + TRIAL_CREDITS


\* The payment request p has answered declares an annual period.
Annual(p) == req[p].payload.subscription_type = "Yearly"

\* The figures of the product of the payment, or the fixed ones of the credits
\* route, which reads no product id.
MonthlyFigure(p) ==
    IF req[p].flow = "groovesell-webhook"
    THEN PRODUCT_TIER_MAPPING(req[p].payload.product_id).monthlyCredits
    ELSE MONTHLY_CREDITS

YearlyFigure(p) ==
    IF req[p].flow = "groovesell-webhook"
    THEN PRODUCT_TIER_MAPPING(req[p].payload.product_id).yearlyCredits
    ELSE YEARLY_CREDITS

\* C15 as claimed: a processed payment event with amount > 0 grants the
\* monthly figure and sets the period to monthly, or, when it declares an
\* annual period, grants the yearly figure and sets the period to yearly: an
\* annual payment is never granted the monthly amount or given period monthly.
C15_PaymentFollowsDeclaredPeriod ==
    \A p \in Procs :
        Processed(p, "payment")
        => /\ Stored(p).credits = pre[p].credits + call[p].amount
           /\ IF Annual(p)
              THEN /\ call[p].amount = YearlyFigure(p)
                   /\ Stored(p).subscription_type = "yearly"
                   /\ Stored(p).subscription_expires_at = "now+1year"
              ELSE /\ call[p].amount = MonthlyFigure(p)
                   /\ Stored(p).subscription_type = "monthly"
                   /\ Stored(p).subscription_expires_at = "now+1month"

\* C15 amended: the groovesell-webhook route does as claimed, with the figures
\* of the product; the credits route grants MONTHLY_CREDITS and sets the
\* period to monthly for every payment, also for one that declares an annual
\* period.
C15_PaymentFollowsDeclaredPeriodInGrooveSell ==
    \A p \in Procs :
        Processed(p, "payment")
        => /\ Stored(p).credits = pre[p].credits + call[p].amount
           /\ IF Annual(p) /\ req[p].flow = "groovesell-webhook"
              THEN /\ call[p].amount = YearlyFigure(p)
                   /\ Stored(p).subscription_type = "yearly"
                   /\ Stored(p).subscription_expires_at = "now+1year"
              ELSE /\ call[p].amount = MonthlyFigure(p)
                   /\ Stored(p).subscription_type = "monthly"
                   /\ Stored(p).subscription_expires_at = "now+1month"

C15_Witness ==
    \E p \in Procs :
        /\ Processed(p, "payment")
        /\ Annual(p)
        /\ req[p].flow = "groovesell-webhook"
        /\ req[p].payload.product_id = "90211"
        /\ pre[p].subscription_type = "monthly"
        /\ Stored(p).subscription_type = "yearly"
        /\ Stored(p).credits = pre[p].credits + 120


\* Request p handles a webhook delivery or has answered it.
Delivered(p) ==
    req[p].active /\ req[p].flow \in {"groovesell-webhook", "credits"}

\* A body whose event is a payment of amount 0 or without amount, or whose
\* event type is none of those that are processed.
Ignorable(body) ==
    /\ body.event # NULL
    /\ \/ body.event = "subscription-payment" /\ ParseFloat(body.amount) = 0
       \/ body.event \notin {"subscription-trial-start", "subscription-payment"}

\* The handler of request p has not written the account of the buyer nor
\* appended a transaction.
NoMutation(p) ==
    /\ RowOf(users, req[p].payload.buyer_email) = pre[p]
    /\ appended[p] = <<>>

\* The body passes what the handler looks at before the event: email and a
\* known product id (groovesell-webhook); email and no action (credits).
PassesValidation(p) ==
    /\ req[p].payload.buyer_email # NULL
    /\ IF req[p].flow = "groovesell-webhook"
       THEN req[p].payload.product_id \in {"90143", "90211", "90212"}
       ELSE req[p].payload.action = NULL

DeliveryAnswered(p) == Delivered(p) /\ pc[p] = "done"

\* signUpUser or addCredits threw while the handler of request p processed
\* the delivery.
FailedInternally(p) == ret[p].kind = "err"

\* C17 as claimed: every webhook delivery is answered with a success-shaped
\* response, also when processing fails internally; none is answered with an
\* error status.
C17_NeverAnErrorStatus ==
    \A p \in Procs :
        DeliveryAnswered(p) => req[p].status = 200

\* C17 amended: the groovesell-webhook route answers with status 200 and
\* success: true whenever the body passed its validation, also when signUpUser
\* or addCredits failed, and with status 400 when the body did not; the
\* credits route answers with status 400 for a body without email or without
\* event and action, with status 500 when signUpUser or addCredits threw, and
\* with status 200 otherwise.
C17_ErrorStatusByRoute ==
    \A p \in Procs :
        DeliveryAnswered(p)
        => IF req[p].flow = "groovesell-webhook"
           THEN IF PassesValidation(p)
                THEN req[p].status = 200 /\ req[p].success
                ELSE req[p].status = 400 /\ req[p].error /\ ~req[p].success
           ELSE IF \/ req[p].payload.buyer_email = NULL
                   \/ /\ req[p].payload.event = NULL
                      /\ req[p].payload.action = NULL
           THEN req[p].status = 400 /\ req[p].error /\ ~req[p].success
           ELSE IF FailedInternally(p)
           THEN req[p].status = 500 /\ req[p].error /\ ~req[p].success
           ELSE req[p].status = 200 /\ ~req[p].error

C17_Witness ==
    \E p \in Procs :
        /\ DeliveryAnswered(p)
        /\ req[p].flow = "groovesell-webhook"
        /\ FailedInternally(p)
        /\ ret[p].code = "ADD_CREDITS_ERROR"
        /\ req[p].status = 200
        /\ req[p].success
        /\ req[p].error


\* What the access gate of the generation handler has decided for request p:
\* 402, 403, or on to the generation.
Decision(p) ==
    IF req[p].flow # "POST" \/ ~req[p].active THEN "none"
    ELSE IF pc[p] = "done" /\ req[p].status = 402 THEN "insufficient_credits"
    ELSE IF pc[p] = "done" /\ req[p].status = 403 THEN "tier_restricted"
    ELSE IF pc[p] = "post_gen" THEN "ok"
    ELSE "none"

\* The decision the claim gives for an account (NoUser: no account, balance 0).
DecisionOf(u) ==
    IF u.credits < REQUIRED_CREDITS THEN "insufficient_credits"
    ELSE IF u.subscription_tier = "basic" THEN "tier_restricted"
    ELSE "ok"

\* C21 as claimed: the gate never throws and its decision is a function of
\* the balance and the tier of the account alone: insufficient_credits when
\* the balance is below the required credits, else tier_restricted for the
\* basic tier, else ok.
C21_DecisionFromBalanceAndTier ==
    \A p \in Procs :
        /\ req[p].flow = "POST" /\ pc[p] \in {"post_has", "post_can", "post_gen"}
           => req[p].status = 0
        /\ Decision(p) # "none" => Decision(p) = DecisionOf(Stored(p))

\* C21 amended: that is the decision when the store answers the lookups of
\* both checks.  A check whose lookup fails passes, so that with a failing
\* store the gate never decides insufficient_credits for that check and may
\* decide ok for any balance and tier; it decides tier_restricted only for an
\* email without an account or with the basic tier.
C21_DecisionFromBalanceAndTierAndStore ==
    \A p \in Procs :
        /\ req[p].flow = "POST" /\ pc[p] \in {"post_has", "post_can", "post_gen"}
           => req[p].status = 0
        /\ Decision(p) # "none"
           => IF LookedUp(p)
              THEN Decision(p) = DecisionOf(Stored(p))
              ELSE \/ Decision(p) = "ok"
                   \/ /\ Decision(p) = "tier_restricted"
                      /\ \/ Stored(p) = NoUser
                         \/ Stored(p).subscription_tier = "basic"

C21_Witness ==
    \E p \in Procs :
        /\ Decision(p) = "tier_restricted"
        /\ LookedUp(p)
        /\ Stored(p).credits >= REQUIRED_CREDITS
        /\ Stored(p).subscription_tier = "basic"


\* C22: canAccessMultiplePhotos(email) never throws; it returns true when the
\* lookup of the account fails with a store error, whatever the account, and
\* false when the store answers that no account exists for the email.
C22_CanAccessMultiplePhotosFailsOpen ==
    \A p \in Procs :
        Completed(p, "canAccessMultiplePhotos")
        => /\ ret[p].kind = "ok"
           /\ ~LookedUp(p) => ret[p].bool = TRUE
           /\ LookedUp(p) /\ Stored(p) = NoUser => ret[p].bool = FALSE

C22_Witness ==
    \E p \in Procs :
        /\ Completed(p, "canAccessMultiplePhotos")
        /\ ~LookedUp(p)
        /\ Stored(p).subscription_tier = "basic"
        /\ ret[p].kind = "ok"
        /\ ret[p].bool = TRUE


\* Request p handles or has answered a manual call of the credits API:
\* action add_credits, an email, no webhook event.
Manual(p) ==
    /\ Delivered(p)
    /\ req[p].flow = "credits"
    /\ req[p].payload.action = "add_credits"
    /\ req[p].payload.event = NULL
    /\ req[p].payload.buyer_email # NULL

\* The grant of request p added amount and left period and expiry alone.
GrantedOnly(p, amount) ==
    /\ call[p].amount = amount
    /\ Stored(p).credits = pre[p].credits + amount
    /\ Stored(p).subscription_type = pre[p].subscription_type
    /\ Stored(p).subscription_expires_at = pre[p].subscription_expires_at

\* The grant of request p added amount and set period and expiry.
GrantedWithPeriod(p, amount, period, expiry) ==
    /\ call[p].amount = amount
    /\ Stored(p).credits = pre[p].credits + amount
    /\ Stored(p).subscription_type = period
    /\ Stored(p).subscription_expires_at = expiry

\* What a processed manual call does for the three subscription types.
ManualGrant(p) ==
    Processed(p, "manual")
    => IF req[p].payload.subscription_type = "trial"
       THEN GrantedOnly(p, TRIAL_CREDITS)
       ELSE IF req[p].payload.subscription_type = "monthly"
       THEN GrantedWithPeriod(p, MONTHLY_CREDITS, "monthly", "now+1month")
       ELSE IF req[p].payload.subscription_type = "yearly"
       THEN GrantedWithPeriod(p, YEARLY_CREDITS, "yearly", "now+1year")
       ELSE TRUE

KnownType(p) ==
    req[p].payload.subscription_type \in {"trial", "monthly", "yearly"}

AccountsBefore(p) == IF pre[p] = NoUser THEN {} ELSE {pre[p]}

\* C24: a getOrCreateUser call whose lookup or whose insert fails in the
\* store throws to its caller, returns no account, and leaves the set of
\* accounts as it was.
C24_GetOrCreateUserPropagatesStoreFailure ==
    \A p \in Procs :
        ( /\ Completed(p, "getOrCreateUser")
          /\ fault[p] \in {"lookup", "insert"}
          /\ ~dirty[p] )
        => /\ ret[p].kind = "err"
           /\ ret[p].code \in {"GET_USERS_ERROR", "CREATE_USER_ERROR"}
           /\ ret[p].user = NoUser
           /\ users = AccountsBefore(p)

C24_Witness ==
    \E p \in Procs :
        /\ Completed(p, "getOrCreateUser")
        /\ fault[p] = "insert"
        /\ ret[p].code = "CREATE_USER_ERROR"
        /\ users = {}


\* The call op of request p, made on its own (not by a handler), has returned.
Returned(p, op) ==
    /\ pc[p] = "done"
    /\ ~req[p].active
    /\ call[p].op = op
    /\ ret[p].kind = "ok"

\* Requests p and q are two, their calls were for the same account, and both
\* read the same row of it before either wrote.
Raced(p, q) ==
    /\ p # q
    /\ call[p].email = call[q].email
    /\ user[p] # NoUser
    /\ user[p] = user[q]

\* C25: whenever two useCredits calls on one account have both read the same
\* balance B and both returned, each has written B minus its own amount, and
\* the balance is what the later writer wrote: with equal amounts A it is
\* B - A and not B - 2A.
C25_ConcurrentDebitsLoseAnUpdate ==
    \A p, q \in Procs :
        ( /\ Raced(p, q)
          /\ Returned(p, "useCredits")
          /\ Returned(q, "useCredits") )
        => /\ user[p].credits >= call[p].amount
           /\ user[q].credits >= call[q].amount
           /\ Balance(users, call[p].email) \in
                  {user[p].credits - call[p].amount,
                   user[q].credits - call[q].amount}

C25_Witness ==
    \E p, q \in Procs :
        /\ Raced(p, q)
        /\ Returned(p, "useCredits")
        /\ Returned(q, "useCredits")
        /\ call[p].amount = 2
        /\ call[q].amount = 2
        /\ user[p].credits = 4
        /\ Balance(users, call[p].email) = 2
        /\ Len(log) = 2


\* C26: whenever an addCredits(email, N) call and a useCredits(email, A) call
\* on one account have both read the same balance B and both returned, the
\* balance is B + N (the debit is lost) or B - A (the grant is lost), and not
\* B + N - A.
C26_ConcurrentGrantAndDebitLoseAnUpdate ==
    \A p, q \in Procs :
        ( /\ Raced(p, q)
          /\ Returned(p, "addCredits")
          /\ Returned(q, "useCredits") )
        => /\ Balance(users, call[p].email) \in
                  {user[p].credits + call[p].amount,
                   user[q].credits - call[q].amount}
           /\ Balance(users, call[p].email) #
                  user[p].credits + call[p].amount - call[q].amount

C26_Witness ==
    \E p, q \in Procs :
        /\ Raced(p, q)
        /\ Returned(p, "addCredits")
        /\ Returned(q, "useCredits")
        /\ call[p].amount = 1
        /\ call[q].amount = 2
        /\ user[p].credits = 2
        /\ Balance(users, call[p].email) = 0
        /\ Len(log) = 2


\* C27: the stored balance of every account is at least 0 in every reachable
\* state, whatever the interleaving of the store calls of getOrCreateUser,
\* useCredits and addCredits and whichever of them fail.
C27_BalanceNeverNegative ==
    \A r \in users : r.credits >= 0

C27_Witness ==
    \E p, q \in Procs :
        /\ Raced(p, q)
        /\ Returned(p, "useCredits")
        /\ Returned(q, "useCredits")
        /\ user[p].credits < call[p].amount + call[q].amount
        /\ Balance(users, call[p].email) = 0


\* The sum of the amounts of the transaction records of an account.
RECURSIVE SumOfAmounts(_, _)
SumOfAmounts(txs, id) ==
    IF txs = <<>> THEN 0
    ELSE (IF Head(txs).user_id = id THEN Head(txs).amount ELSE 0)
         + SumOfAmounts(Tail(txs), id)

\* C28: when operations do not interleave and no append to the transaction
\* log fails, after every completed operation the balance of every account is
\* the sum of the amounts of its transaction records; an operation that fails
\* has changed neither the balance nor the log.
C28_BalanceIsSumOfTransactions ==
    (\A q \in Procs : Idle(q))
    => /\ \A r \in users : r.credits = SumOfAmounts(log, r.id)
       /\ \A p \in Procs :
             ret[p].kind = "err"
             => /\ Stored(p).credits = pre[p].credits
                /\ appended[p] = <<>>

C28_Witness ==
    \E p \in Procs :
        /\ Returned(p, "useCredits")
        /\ Len(log) = 2
        /\ log[1].amount = 3
        /\ log[2].amount = -2
        /\ Stored(p).credits = 1


\* UNIQUE (email): there is at most one row per email.
OneRowPerEmail ==
    \A email \in Emails : Cardinality(Matching(users, email)) <= 1

\* Request p makes the insert of createUser in this step.
Inserts(p) ==
    /\ pc[p] \in {"goc_create", "add_create"}
    /\ pc'[p] # pc[p]

\* An insert made when the email has a row already (the request saw none, the
\* other request inserted since) changes nothing and throws.
LosingInsertFails ==
    \A p \in Procs :
        Inserts(p) /\ Matching(users, call[p].email) # {}
        => /\ users' = users
           /\ pc'[p] = "done"
           /\ ret'[p].kind = "err"
           /\ ret'[p].code = "CREATE_USER_ERROR"

\* C29: there is at most one row per email in every reachable state, and when
\* two getOrCreateUser or addCredits calls for an unseen email both saw no
\* account, the insert of the second one is refused and its call fails with
\* an error.
C29_OneAccountPerEmail ==
    []OneRowPerEmail /\ [][LosingInsertFails]_vars

C29_Witness ==
    \E p, q \in Procs :
        /\ p # q
        /\ pre[p] = NoUser
        /\ pre[q] = NoUser
        /\ Returned(p, "getOrCreateUser")
        /\ pc[q] = "done"
        /\ call[q].op \in {"getOrCreateUser", "addCredits"}
        /\ fault[q] = "insert"
        /\ dirty[q]
        /\ ret[q].code = "CREATE_USER_ERROR"
        /\ Cardinality(users) = 1


\* The generation handler has answered request p with the image.
ImageDelivered(p) ==
    /\ pc[p] = "done"
    /\ req[p].active
    /\ req[p].flow = "POST"
    /\ req[p].image

\* Requests p and q are two generation requests for one account, both received
\* before the account was written, when its balance covered the cost of one
\* generation and not of two.
CoversOne(p, q) ==
    /\ p # q
    /\ call[p].email = call[q].email
    /\ pre[p] = pre[q]
    /\ pre[p].credits >= REQUIRED_CREDITS
    /\ pre[p].credits < 2 * REQUIRED_CREDITS

\* C30: whenever two such requests have both been answered with an image, the
\* balance is not below 0 and the debits have together removed less than the
\* cost of two generations: one debit at most took effect.  Either a debit
\* failed (with INSUFFICIENT_CREDITS when it read the balance the other had
\* left), or both read the same balance and the later write replaced the
\* earlier one.
C30_TwoImagesForTheCostOfOne ==
    \A p, q \in Procs :
        CoversOne(p, q) /\ ImageDelivered(p) /\ ImageDelivered(q)
        => /\ Balance(users, call[p].email) >= 0
           /\ pre[p].credits - Balance(users, call[p].email)
                  \in {0, REQUIRED_CREDITS}
           /\ ret[p].kind = "ok" /\ ret[q].kind = "ok" => user[p] = user[q]
           /\ user[q] # NoUser /\ user[q].credits < REQUIRED_CREDITS
              => ret[q].code = "INSUFFICIENT_CREDITS"

C30_Witness ==
    \E p, q \in Procs :
        /\ CoversOne(p, q)
        /\ ImageDelivered(p)
        /\ ImageDelivered(q)
        /\ pre[p].credits = 3
        /\ ret[p].kind = "ok"
        /\ ret[q].code = "INSUFFICIENT_CREDITS"
        /\ req[q].warning
        /\ Balance(users, call[p].email) = 1

====
